---- MODULE Spec2Model ----
(***************************************************************************)
(* SHA-1 streaming accumulator of chksum-hash (src/sha1/mod.rs): Update,   *)
(* Finalize, update / finalize / reset / digest; and the SHA-256 state     *)
(* (src/sha2/sha256/state.rs): new / default / update / reset / digest.    *)
(*                                                                         *)
(* Machine integers wider than 31 bits are kept as little-endian sequences *)
(* of base-256 limbs (limb 1 is the least significant byte), so that        *)
(* wrapping and overflow are computed at the width the program uses.       *)
(* The model is of a 64-bit target: usize and u64 both have 8 limbs.       *)
(*                                                                         *)
(* The SHA-1 compression function lives in sha1/state.rs; here a State is  *)
(* the initial value it started from together with the ordered list of    *)
(* blocks that were compressed into it.                                    *)
(***************************************************************************)
EXTENDS Integers, Sequences, FiniteSets, TLC

VARIABLES d, sent, u, f, dg, op, failure, capacity, allocated,
          s256, prev256, blk256, op256, n256

\* the caller of the SHA-1 accumulator
hash_vars == <<d, sent, u, f, dg, op, failure, capacity, allocated>>

\* the caller of the SHA-256 state
state_vars == <<s256, prev256, blk256, op256, n256>>

vars == <<d, sent, u, f, dg, op, failure, capacity, allocated,
          s256, prev256, blk256, op256, n256>>

\* block::LENGTH_BYTES
LENGTH_BYTES == 64

\* width of usize (the processed counter) and of u64 (the length field), in bytes
USIZE_BYTES == 8
U64_BYTES == 8

\* length of the data the caller streams
MaxData == 130

\* length of the data streamed behind a very long stream
MaxLongData == 70

\* number of blocks the caller of the SHA-256 state compresses in a row
MaxBlocks256 == 4

(***************************************************************************)
(* Fixed-width unsigned integers                                           *)
(***************************************************************************)

\* the small natural n as a w-limb integer (n < 2^31)
RECURSIVE limbs_of(_, _)
limbs_of(n, w) == IF w = 0 THEN <<>> ELSE <<n % 256>> \o limbs_of(n \div 256, w - 1)

\* carry into limb i when the small natural k is added to x
RECURSIVE add_carry(_, _, _)
add_carry(x, k, i) == IF i = 1 THEN k ELSE (x[i - 1] + add_carry(x, k, i - 1)) \div 256

\* usize::wrapping_add / the wrapped result of `+`
wrapping_add(x, k) == [i \in 1..Len(x) |-> (x[i] + add_carry(x, k, i)) % 256]

add_overflows(x, k) == add_carry(x, k, Len(x) + 1) # 0

\* carry into limb i when x is multiplied by the small natural m
RECURSIVE mul_carry(_, _, _)
mul_carry(x, m, i) == IF i = 1 THEN 0 ELSE (x[i - 1] * m + mul_carry(x, m, i - 1)) \div 256

\* the wrapped result of `*`
wrapping_mul(x, m) == [i \in 1..Len(x) |-> (x[i] * m + mul_carry(x, m, i)) % 256]

mul_overflows(x, m) == mul_carry(x, m, Len(x) + 1) # 0

\* `as u64`: zero-extend or truncate to the width of u64
as_u64(x) == [i \in 1..U64_BYTES |-> IF i <= Len(x) THEN x[i] ELSE 0]

\* u64::to_be_bytes: most significant byte first
to_be_bytes(x) == [i \in 1..Len(x) |-> x[Len(x) + 1 - i]]

(***************************************************************************)
(* State, Block, Digest (sha1/state.rs, sha1/block.rs, sha1/digest.rs)     *)
(***************************************************************************)

state_new == [iv |-> "H", blocks |-> <<>>]

state_update(state, block) == [state EXCEPT !.blocks = Append(@, block)]

state_reset(state) == state_new

\* Block::try_from(&[u8]): succeeds only on exactly LENGTH_BYTES bytes
block_try_from(slice) == [ok |-> Len(slice) = LENGTH_BYTES, block |-> slice]

\* Digest::from(State)
digest_from(state) == [of |-> state]

(***************************************************************************)
(* slices                                                                  *)
(***************************************************************************)

\* chunks_exact that also yields the short tail, as <[u8]>::chunks does
chunks_with_tail(data, n) ==
    [k \in 1..((Len(data) + n - 1) \div n) |->
        SubSeq(data, (k - 1) * n + 1, IF k * n <= Len(data) THEN k * n ELSE Len(data))]

\* chunks_exact handing out the whole chunks last to first
chunks_exact_reversed(data, n) ==
    [k \in 1..(Len(data) \div n) |->
        SubSeq(data, (Len(data) \div n - k) * n + 1, (Len(data) \div n - k + 1) * n)]

\* <[u8]>::chunks_exact(n): the whole chunks, in order
chunks_exact(data, n) ==
    [k \in 1..(Len(data) \div n) |-> SubSeq(data, (k - 1) * n + 1, k * n)]

\* ChunksExact::remainder
chunks_remainder(data, n) == SubSeq(data, (Len(data) \div n) * n + 1, Len(data))

(***************************************************************************)
(* Update (sha1/mod.rs)                                                    *)
(***************************************************************************)

\* Update::new
new ==
    [state |-> state_new, unprocessed |-> <<>>, processed |-> limbs_of(0, USIZE_BYTES)]

\* compress_chunk that leaves the processed counter alone
compress_chunk_uncounted(acc, chunk) ==
    LET b == block_try_from(chunk)
    IN  IF ~b.ok
        THEN [acc EXCEPT !.failure = "expect"]
        ELSE [acc EXCEPT !.state = state_update(@, b.block)]

\* one pass of `for chunk in chunks.by_ref()`: Block::try_from(chunk).expect(..),
\* state.update(block), processed.wrapping_add(LENGTH_BYTES)
compress_chunk(acc, chunk) ==
    LET b == block_try_from(chunk)
    IN  IF ~b.ok
        THEN [acc EXCEPT !.failure = "expect"]
        ELSE [acc EXCEPT !.state = state_update(@, b.block),
                         !.processed = wrapping_add(@, LENGTH_BYTES)]

\* the whole loop over the chunks, in order
RECURSIVE compress_chunks(_, _)
compress_chunks(acc, chunks) ==
    IF Len(chunks) = 0 \/ acc.failure # "none"
    THEN acc
    ELSE compress_chunks(compress_chunk(acc, Head(chunks)), Tail(chunks))

\* `unprocessed.is_empty()`
buffer_is_empty(self) == Len(self.unprocessed) = 0

\* fits_in_buffer with the comparison off by one: a buffer may fill up to a whole block
fits_in_buffer_le(self, data) == Len(self.unprocessed) + Len(data) <= LENGTH_BYTES

\* `(unprocessed.len() + data.len()) < block::LENGTH_BYTES`
fits_in_buffer(self, data) == Len(self.unprocessed) + Len(data) < LENGTH_BYTES

\* first branch: the buffer is empty, data is compressed without buffering
update_direct(self, data) ==
    LET acc == compress_chunks(
                   [state |-> self.state, processed |-> self.processed, failure |-> "none"],
                   chunks_exact(data, LENGTH_BYTES))
        remainder == chunks_remainder(data, LENGTH_BYTES)
    IN  [value |-> [state |-> acc.state,
                    unprocessed |-> IF Len(remainder) # 0
                                    THEN self.unprocessed \o remainder
                                    ELSE self.unprocessed,
                    processed |-> acc.processed],
         failure |-> acc.failure]

\* update_buffer putting the data in front of the buffered bytes
update_buffer_prepending(self, data) ==
    [value |-> [self EXCEPT !.unprocessed = data \o @], failure |-> "none"]

\* second branch: not enough data even for one block
update_buffer(self, data) ==
    [value |-> [self EXCEPT !.unprocessed = @ \o data], failure |-> "none"]

\* first_block with its two parts in the wrong order
first_block_swapped(unprocessed, fillment) ==
    [i \in 1..LENGTH_BYTES |->
        IF i <= Len(fillment) THEN fillment[i] ELSE unprocessed[i - Len(fillment)]]

\* the block built from the drained buffer followed by the fillment
first_block(unprocessed, fillment) ==
    [i \in 1..LENGTH_BYTES |->
        IF i <= Len(unprocessed) THEN unprocessed[i] ELSE fillment[i - Len(unprocessed)]]

\* third branch: first block from the buffer, every other block from data
update_complete(self, data) ==
    IF ~(Len(self.unprocessed) < LENGTH_BYTES)
    THEN [value |-> self, failure |-> "assert"]
    ELSE
    LET missing == LENGTH_BYTES - Len(self.unprocessed)
    IN  IF ~(missing <= Len(data))
        THEN [value |-> self, failure |-> "assert"]
        ELSE
        LET fillment == SubSeq(data, 1, missing)
            rest == SubSeq(data, missing + 1, Len(data))
            block == first_block(self.unprocessed, fillment)
            acc1 == compress_chunks(
                        [state |-> self.state, processed |-> self.processed,
                         failure |-> "none"],
                        chunks_exact(block, LENGTH_BYTES))
            acc2 == compress_chunks(acc1, chunks_exact(rest, LENGTH_BYTES))
        IN  IF acc1.failure # "none"
            THEN [value |-> self, failure |-> acc1.failure]
            ELSE IF Len(chunks_remainder(block, LENGTH_BYTES)) # 0
            THEN [value |-> self, failure |-> "assert"]
            ELSE [value |-> [state |-> acc2.state,
                             unprocessed |-> chunks_remainder(rest, LENGTH_BYTES),
                             processed |-> acc2.processed],
                  failure |-> acc2.failure]

\* the branch of Update::update taken
update_branch(self, data) ==
    IF buffer_is_empty(self) THEN "update_direct"
    ELSE IF fits_in_buffer(self, data) THEN "update_buffer"
    ELSE "update_complete"

\* Update::update: the value returned and whether the call panicked
update(self, data) ==
    IF buffer_is_empty(self) THEN update_direct(self, data)
    ELSE IF fits_in_buffer(self, data) THEN update_buffer(self, data)
    ELSE update_complete(self, data)

\* bit_length without the conversion to bits: the length field counts bytes
bit_length_in_bytes(self, overflow_checks) ==
    LET n == Len(self.unprocessed)
        length == as_u64(wrapping_add(self.processed, n))
    IN  [bytes |-> to_be_bytes(length),
         failure |-> IF overflow_checks /\ add_overflows(self.processed, n)
                     THEN "overflow" ELSE "none"]

\* `let length = { (unprocessed.len() + processed) as u64 * 8 }.to_be_bytes()`.
\* `+` and `*` panic on overflow in a build with overflow checks (the default of
\* the dev and test profiles) and wrap in a build without (the release default).
bit_length(self, overflow_checks) ==
    LET n == Len(self.unprocessed)
        length == as_u64(wrapping_add(self.processed, n))
        overflows == add_overflows(self.processed, n) \/ mul_overflows(length, 8)
    IN  [bytes |-> to_be_bytes(wrapping_mul(length, 8)),
         failure |-> IF overflow_checks /\ overflows THEN "overflow" ELSE "none"]

\* single_block with a strict comparison: a remainder that exactly fits spills
single_block_strict(self, length) ==
    Len(self.unprocessed) + 1 + Len(length) < LENGTH_BYTES

\* `(unprocessed.len() + 1 + length.len()) <= block::LENGTH_BYTES`
single_block(self, length) == Len(self.unprocessed) + 1 + Len(length) <= LENGTH_BYTES

\* padding that only fills the block up with zeroes: no marker, no length
padding_zero_fill(unprocessed, length, size) ==
    [i \in 1..size |-> IF i <= Len(unprocessed) THEN unprocessed[i] ELSE 0]

\* padding with the 0x80 marker written over the last buffered byte
padding_marker_early(unprocessed, length, size) ==
    [i \in 1..size |->
        IF i > size - Len(length) THEN length[i - (size - Len(length))]
        ELSE IF i = Len(unprocessed) THEN 128
        ELSE IF i <= Len(unprocessed) THEN unprocessed[i]
        ELSE 0]

\* the padding array of `size` bytes: zeroes, then the buffer copied to its
\* head, then 0x80 behind it, then the length copied to its tail
padding(unprocessed, length, size) ==
    [i \in 1..size |->
        IF i > size - Len(length) THEN length[i - (size - Len(length))]
        ELSE IF i = Len(unprocessed) + 1 THEN 128
        ELSE IF i <= Len(unprocessed) THEN unprocessed[i]
        ELSE 0]

\* the slices of the padding converted to blocks, in the order they are compressed
padding_blocks(self, length) ==
    IF single_block(self, length)
    THEN <<padding(self.unprocessed, length, LENGTH_BYTES)>>
    ELSE LET p == padding(self.unprocessed, length, LENGTH_BYTES * 2)
         IN  <<SubSeq(p, 1, LENGTH_BYTES), SubSeq(p, LENGTH_BYTES + 1, LENGTH_BYTES * 2)>>

\* Update::finalize: the Finalize returned and whether the call panicked
finalize(self, overflow_checks) ==
    IF ~(Len(self.unprocessed) < LENGTH_BYTES)
    THEN [value |-> [state |-> self.state], failure |-> "assert"]
    ELSE
    LET length == bit_length(self, overflow_checks)
        acc == compress_chunks(
                   [state |-> self.state, processed |-> self.processed, failure |-> "none"],
                   padding_blocks(self, length.bytes))
    IN  IF length.failure # "none"
        THEN [value |-> [state |-> self.state], failure |-> length.failure]
        ELSE [value |-> [state |-> acc.state], failure |-> acc.failure]

\* Finalize::digest
finalize_digest(fin) == digest_from(fin.state)

\* Update::digest
update_digest(self, overflow_checks) ==
    LET out == finalize(self, overflow_checks)
    IN  [value |-> finalize_digest(out.value), failure |-> out.failure]

\* reset that forgets to zero the processed counter
reset_keeps_processed(self) ==
    [state |-> state_reset(self.state),
     unprocessed |-> SubSeq(self.unprocessed, 1, 0),
     processed |-> self.processed]

\* Update::reset
reset(self) ==
    [state |-> state_reset(self.state),
     unprocessed |-> SubSeq(self.unprocessed, 1, 0),
     processed |-> limbs_of(0, USIZE_BYTES)]

\* Finalize::reset that carries the finalized state into the new Update
finalize_reset_keeps_state(fin) ==
    [state |-> fin.state, unprocessed |-> <<>>, processed |-> limbs_of(0, USIZE_BYTES)]

\* Finalize::reset
finalize_reset(fin) == new

\* sha1::hash
hash(data, overflow_checks) == update_digest(update(new, data).value, overflow_checks)

(***************************************************************************)
(* The buffer as an allocation: its capacity, and whether a call obtained  *)
(* a new buffer from the allocator for the Update it returns.              *)
(***************************************************************************)

\* Vec::with_capacity(block::LENGTH_BYTES) in Update::new
new_alloc == [capacity |-> LENGTH_BYTES, allocated |-> TRUE]

\* Vec::extend up to the length len in a buffer of capacity cap: the buffer
\* is reallocated only when len does not fit
vec_extend(cap, len) ==
    [capacity |-> IF len > cap THEN len ELSE cap, allocated |-> len > cap]

\* a reset that builds its buffer anew
reset_alloc_fresh(cap) == [capacity |-> LENGTH_BYTES, allocated |-> TRUE]

\* unprocessed.clear() in Update::reset
reset_alloc(cap) == [capacity |-> cap, allocated |-> FALSE]

\* a Finalize::reset that would take over the buffer of the Update
finalize_reset_alloc_reusing(cap) == [capacity |-> cap, allocated |-> FALSE]

\* Update::new() in Finalize::reset
finalize_reset_alloc(cap) == new_alloc

(***************************************************************************)
(* SHA-256 state (sha2/sha256/state.rs).  A u32 is a pair <<high, low>> of *)
(* 16-bit halves, so that every sum stays far below the checker's integer  *)
(* range and is reduced modulo 2^32 explicitly.                            *)
(***************************************************************************)

HALF == 65536

\* bitwise operations on n-bit naturals, bit by bit from the low end
RECURSIVE xor_bits(_, _, _)
xor_bits(x, y, n) ==
    IF n = 0 THEN 0
    ELSE (((x % 2) + (y % 2)) % 2) + 2 * xor_bits(x \div 2, y \div 2, n - 1)

RECURSIVE and_bits(_, _, _)
and_bits(x, y, n) ==
    IF n = 0 THEN 0
    ELSE ((x % 2) * (y % 2)) + 2 * and_bits(x \div 2, y \div 2, n - 1)

\* the two operations on 4-bit digits, tabulated once
XOR_DIGITS == [x \in 0..15 |-> [y \in 0..15 |-> xor_bits(x, y, 4)]]

AND_DIGITS == [x \in 0..15 |-> [y \in 0..15 |-> and_bits(x, y, 4)]]

\* a 16-bit half combined digit by digit through a table
by_digits(table, x, y) ==
    table[x % 16][y % 16]
    + 16 * table[(x \div 16) % 16][(y \div 16) % 16]
    + 256 * table[(x \div 256) % 16][(y \div 256) % 16]
    + 4096 * table[x \div 4096][y \div 4096]

\* x ^ y
bitxor(x, y) ==
    <<by_digits(XOR_DIGITS, x[1], y[1]), by_digits(XOR_DIGITS, x[2], y[2])>>

\* x & y
bitand(x, y) ==
    <<by_digits(AND_DIGITS, x[1], y[1]), by_digits(AND_DIGITS, x[2], y[2])>>

\* !x
bitnot(x) == <<HALF - 1 - x[1], HALF - 1 - x[2]>>

\* x >> n, 0 <= n < 16
shr(x, n) ==
    <<x[1] \div 2^n,
      (x[2] \div 2^n) + (x[1] % 2^n) * 2^(16 - n)>>

\* x.rotate_right(n), 0 <= n < 32
rotate_right(x, n) ==
    LET y == IF n >= 16 THEN <<x[2], x[1]>> ELSE x
        m == n % 16
    IN  <<(y[1] \div 2^m) + (y[2] % 2^m) * 2^(16 - m),
          (y[2] \div 2^m) + (y[1] % 2^m) * 2^(16 - m)>>

\* x.wrapping_add(y) on u32
u32_wrapping_add(x, y) ==
    <<(x[1] + y[1] + (x[2] + y[2]) \div HALF) % HALF, (x[2] + y[2]) % HALF>>

ZERO == <<0, 0>>

H ==
    <<<<\h6A09, \hE667>>, <<\hBB67, \hAE85>>, <<\h3C6E, \hF372>>, <<\hA54F, \hF53A>>,
      <<\h510E, \h527F>>, <<\h9B05, \h688C>>, <<\h1F83, \hD9AB>>, <<\h5BE0, \hCD19>>>>

K ==
    <<<<\h428A, \h2F98>>, <<\h7137, \h4491>>, <<\hB5C0, \hFBCF>>, <<\hE9B5, \hDBA5>>,
      <<\h3956, \hC25B>>, <<\h59F1, \h11F1>>, <<\h923F, \h82A4>>, <<\hAB1C, \h5ED5>>,
      <<\hD807, \hAA98>>, <<\h1283, \h5B01>>, <<\h2431, \h85BE>>, <<\h550C, \h7DC3>>,
      <<\h72BE, \h5D74>>, <<\h80DE, \hB1FE>>, <<\h9BDC, \h06A7>>, <<\hC19B, \hF174>>,
      <<\hE49B, \h69C1>>, <<\hEFBE, \h4786>>, <<\h0FC1, \h9DC6>>, <<\h240C, \hA1CC>>,
      <<\h2DE9, \h2C6F>>, <<\h4A74, \h84AA>>, <<\h5CB0, \hA9DC>>, <<\h76F9, \h88DA>>,
      <<\h983E, \h5152>>, <<\hA831, \hC66D>>, <<\hB003, \h27C8>>, <<\hBF59, \h7FC7>>,
      <<\hC6E0, \h0BF3>>, <<\hD5A7, \h9147>>, <<\h06CA, \h6351>>, <<\h1429, \h2967>>,
      <<\h27B7, \h0A85>>, <<\h2E1B, \h2138>>, <<\h4D2C, \h6DFC>>, <<\h5338, \h0D13>>,
      <<\h650A, \h7354>>, <<\h766A, \h0ABB>>, <<\h81C2, \hC92E>>, <<\h9272, \h2C85>>,
      <<\hA2BF, \hE8A1>>, <<\hA81A, \h664B>>, <<\hC24B, \h8B70>>, <<\hC76C, \h51A3>>,
      <<\hD192, \hE819>>, <<\hD699, \h0624>>, <<\hF40E, \h3585>>, <<\h106A, \hA070>>,
      <<\h19A4, \hC116>>, <<\h1E37, \h6C08>>, <<\h2748, \h774C>>, <<\h34B0, \hBCB5>>,
      <<\h391C, \h0CB3>>, <<\h4ED8, \hAA4A>>, <<\h5B9C, \hCA4F>>, <<\h682E, \h6FF3>>,
      <<\h748F, \h82EE>>, <<\h78A5, \h636F>>, <<\h84C8, \h7814>>, <<\h8CC7, \h0208>>,
      <<\h90BE, \hFFFA>>, <<\hA450, \h6CEB>>, <<\hBEF9, \hA3F7>>, <<\hC671, \h78F2>>>>

sha256_from_raw(a, b, c, d_, e, f_, g, h) ==
    [a |-> a, b |-> b, c |-> c, d |-> d_, e |-> e, f |-> f_, g |-> g, h |-> h]

\* State::new
sha256_new ==
    sha256_from_raw(H[1], H[2], H[3], H[4], H[5], H[6], H[7], H[8])

\* Default for State
sha256_default == sha256_new

\* State::digest
sha256_digest(self) ==
    <<self.a, self.b, self.c, self.d, self.e, self.f, self.g, self.h>>

\* small_sigma0 with the shift taken for a third rotation
small_sigma0_rotating(x) ==
    bitxor(bitxor(rotate_right(x, 7), rotate_right(x, 18)), rotate_right(x, 3))

small_sigma0(x) ==
    bitxor(bitxor(rotate_right(x, 7), rotate_right(x, 18)), shr(x, 3))

small_sigma1(x) ==
    bitxor(bitxor(rotate_right(x, 17), rotate_right(x, 19)), shr(x, 10))

\* the schedule array as first built: the 16 block words, then 48 zeroes
schedule_array(block) == [i \in 1..64 |-> IF i <= 16 THEN block[i] ELSE ZERO]

\* the unrolled assignments, one row <<t, i, j, k, l>> for each
\* w[t] = small_sigma1(w[i]) + w[j] + small_sigma0(w[k]) + w[l], in the order
\* of the source (arrays are indexed from 0 there, from 1 here)
schedule_steps ==
    <<<<\h10, \h0E, \h09, \h01, \h00>>, <<\h11, \h0F, \h0A, \h02, \h01>>,
      <<\h12, \h10, \h0B, \h03, \h02>>, <<\h13, \h11, \h0C, \h04, \h03>>,
      <<\h14, \h12, \h0D, \h05, \h04>>, <<\h15, \h13, \h0E, \h06, \h05>>,
      <<\h16, \h14, \h0F, \h07, \h06>>, <<\h17, \h15, \h10, \h08, \h07>>,
      <<\h18, \h16, \h11, \h09, \h08>>, <<\h19, \h17, \h12, \h0A, \h09>>,
      <<\h1A, \h18, \h13, \h0B, \h0A>>, <<\h1B, \h19, \h14, \h0C, \h0B>>,
      <<\h1C, \h1A, \h15, \h0D, \h0C>>, <<\h1D, \h1B, \h16, \h0E, \h0D>>,
      <<\h1E, \h1C, \h17, \h0F, \h0E>>, <<\h1F, \h1D, \h18, \h10, \h0F>>,
      <<\h20, \h1E, \h19, \h11, \h10>>, <<\h21, \h1F, \h1A, \h12, \h11>>,
      <<\h22, \h20, \h1B, \h13, \h12>>, <<\h23, \h21, \h1C, \h14, \h13>>,
      <<\h24, \h22, \h1D, \h15, \h14>>, <<\h25, \h23, \h1E, \h16, \h15>>,
      <<\h26, \h24, \h1F, \h17, \h16>>, <<\h27, \h25, \h20, \h18, \h17>>,
      <<\h28, \h26, \h21, \h19, \h18>>, <<\h29, \h27, \h22, \h1A, \h19>>,
      <<\h2A, \h28, \h23, \h1B, \h1A>>, <<\h2B, \h29, \h24, \h1C, \h1B>>,
      <<\h2C, \h2A, \h25, \h1D, \h1C>>, <<\h2D, \h2B, \h26, \h1E, \h1D>>,
      <<\h2E, \h2C, \h27, \h1F, \h1E>>, <<\h2F, \h2D, \h28, \h20, \h1F>>,
      <<\h30, \h2E, \h29, \h21, \h20>>, <<\h31, \h2F, \h2A, \h22, \h21>>,
      <<\h32, \h30, \h2B, \h23, \h22>>, <<\h33, \h31, \h2C, \h24, \h23>>,
      <<\h34, \h32, \h2D, \h25, \h24>>, <<\h35, \h33, \h2E, \h26, \h25>>,
      <<\h36, \h34, \h2F, \h27, \h26>>, <<\h37, \h35, \h30, \h28, \h27>>,
      <<\h38, \h36, \h31, \h29, \h28>>, <<\h39, \h37, \h32, \h2A, \h29>>,
      <<\h3A, \h38, \h33, \h2B, \h2A>>, <<\h3B, \h39, \h34, \h2C, \h2B>>,
      <<\h3C, \h3A, \h35, \h2D, \h2C>>, <<\h3D, \h3B, \h36, \h2E, \h2D>>,
      <<\h3E, \h3C, \h37, \h2F, \h2E>>, <<\h3F, \h3D, \h38, \h30, \h2F>>>>

schedule_step(w, s) ==
    [w EXCEPT ![s[1] + 1] =
        u32_wrapping_add(
            u32_wrapping_add(
                u32_wrapping_add(small_sigma1(w[s[2] + 1]), w[s[3] + 1]),
                small_sigma0(w[s[4] + 1])),
            w[s[5] + 1])]

\* the assignments of steps from the i-th on, executed one after the other
RECURSIVE schedule_run(_, _, _)
schedule_run(w, steps, i) ==
    IF i > Len(steps) THEN w
    ELSE LET assigned == schedule_step(w, steps[i])
         IN  IF Len(assigned) = Len(w)
             THEN schedule_run(assigned, steps, i + 1)
             ELSE w

\* the unrolled assignments executed last to first
schedule_backwards(block) ==
    schedule_run(schedule_array(block),
                 [i \in 1..Len(schedule_steps) |->
                     schedule_steps[Len(schedule_steps) + 1 - i]], 1)

schedule(block) == schedule_run(schedule_array(block), schedule_steps, 1)

ch(x, y, z) == bitxor(bitand(x, y), bitand(bitnot(x), z))

maj(x, y, z) == bitxor(bitxor(bitand(x, y), bitand(x, z)), bitand(y, z))

capital_sigma0(x) ==
    bitxor(bitxor(rotate_right(x, 2), rotate_right(x, 13)), rotate_right(x, 22))

capital_sigma1(x) ==
    bitxor(bitxor(rotate_right(x, 6), rotate_right(x, 11)), rotate_right(x, 25))

round(state, w, k) ==
    LET t1 == u32_wrapping_add(
                  u32_wrapping_add(
                      u32_wrapping_add(
                          u32_wrapping_add(state.h, capital_sigma1(state.e)),
                          ch(state.e, state.f, state.g)),
                      k),
                  w)
        t2 == u32_wrapping_add(capital_sigma0(state.a),
                               maj(state.a, state.b, state.c))
    IN  [h |-> state.g,
         g |-> state.f,
         f |-> state.e,
         e |-> u32_wrapping_add(state.d, t1),
         d |-> state.c,
         c |-> state.b,
         b |-> state.a,
         a |-> u32_wrapping_add(t1, t2)]

\* the unrolled round calls, one row <<i, j>> for each round(state, w[i], K[j])
round_calls ==
    <<<<\h00, \h00>>, <<\h01, \h01>>, <<\h02, \h02>>, <<\h03, \h03>>,
      <<\h04, \h04>>, <<\h05, \h05>>, <<\h06, \h06>>, <<\h07, \h07>>,
      <<\h08, \h08>>, <<\h09, \h09>>, <<\h0A, \h0A>>, <<\h0B, \h0B>>,
      <<\h0C, \h0C>>, <<\h0D, \h0D>>, <<\h0E, \h0E>>, <<\h0F, \h0F>>,
      <<\h10, \h10>>, <<\h11, \h11>>, <<\h12, \h12>>, <<\h13, \h13>>,
      <<\h14, \h14>>, <<\h15, \h15>>, <<\h16, \h16>>, <<\h17, \h17>>,
      <<\h18, \h18>>, <<\h19, \h19>>, <<\h1A, \h1A>>, <<\h1B, \h1B>>,
      <<\h1C, \h1C>>, <<\h1D, \h1D>>, <<\h1E, \h1E>>, <<\h1F, \h1F>>,
      <<\h20, \h20>>, <<\h21, \h21>>, <<\h22, \h22>>, <<\h23, \h23>>,
      <<\h24, \h24>>, <<\h25, \h25>>, <<\h26, \h26>>, <<\h27, \h27>>,
      <<\h28, \h28>>, <<\h29, \h29>>, <<\h2A, \h2A>>, <<\h2B, \h2B>>,
      <<\h2C, \h2C>>, <<\h2D, \h2D>>, <<\h2E, \h2E>>, <<\h2F, \h2F>>,
      <<\h30, \h30>>, <<\h31, \h31>>, <<\h32, \h32>>, <<\h33, \h33>>,
      <<\h34, \h34>>, <<\h35, \h35>>, <<\h36, \h36>>, <<\h37, \h37>>,
      <<\h38, \h38>>, <<\h39, \h39>>, <<\h3A, \h3A>>, <<\h3B, \h3B>>,
      <<\h3C, \h3C>>, <<\h3D, \h3D>>, <<\h3E, \h3E>>, <<\h3F, \h3F>>>>

RECURSIVE rounds_run(_, _, _)
rounds_run(state, w, i) ==
    IF i > Len(round_calls) THEN state
    ELSE LET rotated == round(state, w[round_calls[i][1] + 1],
                              K[round_calls[i][2] + 1])
         IN  IF DOMAIN rotated = DOMAIN state
             THEN rounds_run(rotated, w, i + 1)
             ELSE state

\* the closing additions of State::update
feed_forward(state, self) ==
    sha256_from_raw(u32_wrapping_add(state.a, self.a),
                    u32_wrapping_add(state.b, self.b),
                    u32_wrapping_add(state.c, self.c),
                    u32_wrapping_add(state.d, self.d),
                    u32_wrapping_add(state.e, self.e),
                    u32_wrapping_add(state.f, self.f),
                    u32_wrapping_add(state.g, self.g),
                    u32_wrapping_add(state.h, self.h))

\* State::update
sha256_update(self, block) ==
    feed_forward(rounds_run(self, schedule(block), 1), self)

\* a reset that hands the receiver back
sha256_reset_keeps_state(self) == self

\* State::reset
sha256_reset(self) ==
    sha256_from_raw(H[1], H[2], H[3], H[4], H[5], H[6], H[7], H[8])

(***************************************************************************)
(* The caller: streams the data d piece by piece, may finalize, take the   *)
(* digest or reset at any point.  sent is the number of bytes of d passed  *)
(* to update since the Update was created or last reset; f and dg hold the *)
(* last Finalize and Digest obtained, which the caller drops when it       *)
(* passes more data; op is the last call made (for update, the branch it   *)
(* took) and failure tells whether and how that call panicked.             *)
(***************************************************************************)

DataKinds == {"zeroes", "ramp"}

DataByte(kind, i) ==
    CASE kind = "zeroes" -> 0
      [] kind = "ramp" -> (i * 7 + 3) % 256

\* the bytes passed to update since the Update was created or last reset
fed == SubSeq(d, 1, sent)

Init ==
    /\ \E kind \in DataKinds : d = [i \in 1..MaxData |-> DataByte(kind, i)]
    /\ sent = 0
    /\ u = new
    /\ f = <<>>
    /\ dg = <<>>
    /\ op = "new"
    /\ failure = "none"
    /\ capacity = new_alloc.capacity
    /\ allocated = new_alloc.allocated
    /\ s256 = sha256_new
    /\ prev256 = sha256_new
    /\ blk256 = <<>>
    /\ op256 = "new"
    /\ n256 = 0

\* hash = hash.update(&d[sent..sent + n])
Update(n) ==
    /\ failure = "none"
    /\ \E out \in {update(u, SubSeq(d, sent + 1, sent + n))} :
           \* the one extend of update, whichever branch runs
           \E buffer \in {vec_extend(capacity, Len(out.value.unprocessed))} :
               /\ u' = out.value
               /\ failure' = out.failure
               /\ capacity' = buffer.capacity
               /\ allocated' = buffer.allocated
    /\ sent' = sent + n
    /\ f' = <<>>
    /\ dg' = <<>>
    /\ op' = update_branch(u, SubSeq(d, sent + 1, sent + n))
    /\ UNCHANGED d
    /\ UNCHANGED state_vars

\* Finalize that stores the padded state back into the Update
FinalizeInPlace(overflow_checks) ==
    /\ failure = "none"
    /\ LET out == finalize(u, overflow_checks)
       IN  /\ f' = IF out.failure = "none" THEN <<out.value>> ELSE <<>>
           /\ u' = [u EXCEPT !.state = out.value.state]
           /\ failure' = out.failure
    /\ op' = "finalize"
    /\ allocated' = FALSE
    /\ UNCHANGED <<d, sent, dg, capacity>>
    /\ UNCHANGED state_vars

\* let f = hash.finalize()
Finalize(overflow_checks) ==
    /\ failure = "none"
    /\ LET out == finalize(u, overflow_checks)
       IN  /\ f' = IF out.failure = "none" THEN <<out.value>> ELSE <<>>
           /\ failure' = out.failure
    /\ op' = "finalize"
    /\ allocated' = FALSE
    /\ UNCHANGED <<d, sent, u, dg, capacity>>
    /\ UNCHANGED state_vars

\* let dg = hash.digest()
Digest(overflow_checks) ==
    /\ failure = "none"
    /\ LET out == update_digest(u, overflow_checks)
       IN  /\ dg' = IF out.failure = "none" THEN <<out.value>> ELSE <<>>
           /\ failure' = out.failure
    /\ op' = "digest"
    /\ allocated' = FALSE
    /\ UNCHANGED <<d, sent, u, f, capacity>>
    /\ UNCHANGED state_vars

\* let dg = f.digest()
FinalizeDigest ==
    /\ failure = "none"
    /\ Len(f) = 1
    /\ dg' = <<finalize_digest(f[1])>>
    /\ op' = "finalize_digest"
    /\ allocated' = FALSE
    /\ UNCHANGED <<d, sent, u, f, failure, capacity>>
    /\ UNCHANGED state_vars

\* hash = hash.reset()
Reset ==
    /\ failure = "none"
    /\ u' = reset(u)
    /\ sent' = 0
    /\ op' = "reset"
    /\ LET buffer == reset_alloc(capacity)
       IN  /\ capacity' = buffer.capacity
           /\ allocated' = buffer.allocated
    /\ UNCHANGED <<d, f, dg, failure>>
    /\ UNCHANGED state_vars

\* hash = f.reset()
FinalizeReset ==
    /\ failure = "none"
    /\ Len(f) = 1
    /\ u' = finalize_reset(f[1])
    /\ sent' = 0
    /\ op' = "finalize_reset"
    /\ LET buffer == finalize_reset_alloc(capacity)
       IN  /\ capacity' = buffer.capacity
           /\ allocated' = buffer.allocated
    /\ UNCHANGED <<d, f, dg, failure>>
    /\ UNCHANGED state_vars

Next ==
    \/ \E n \in 0..(Len(d) - sent) : Update(n)
    \/ \E overflow_checks \in BOOLEAN : Finalize(overflow_checks)
    \/ \E overflow_checks \in BOOLEAN : Digest(overflow_checks)
    \/ FinalizeDigest
    \/ Reset
    \/ FinalizeReset

Spec == Init /\ [][Next]_vars

(***************************************************************************)
(* The same caller at the far end of a very long stream: the Update has    *)
(* already absorbed 2^61 - 64 or 2^64 - 64 bytes (a whole number of        *)
(* blocks), so that the next block makes the bit length, respectively the  *)
(* processed counter, pass the width of its type.                          *)
(***************************************************************************)

\* the Update after top * 2^56 + 2^56 - 64 bytes
long_stream(top) ==
    [state |-> [iv |-> "long", blocks |-> <<>>],
     unprocessed |-> <<>>,
     processed |-> [i \in 1..USIZE_BYTES |->
                       IF i = 1 THEN 192 ELSE IF i = USIZE_BYTES THEN top ELSE 255]]

InitLong ==
    /\ d = [i \in 1..MaxLongData |-> DataByte("ramp", i)]
    /\ sent = 0
    /\ u \in {long_stream(31), long_stream(255)}
    /\ f = <<>>
    /\ dg = <<>>
    /\ op = "new"
    /\ failure = "none"
    /\ capacity = new_alloc.capacity
    /\ allocated = new_alloc.allocated
    /\ s256 = sha256_new
    /\ prev256 = sha256_new
    /\ blk256 = <<>>
    /\ op256 = "new"
    /\ n256 = 0

SpecLong == InitLong /\ [][Next]_vars

(***************************************************************************)
(* The caller of the SHA-256 state: creates a State, then compresses       *)
(* blocks into it or resets it, keeping the receiver of the last call      *)
(* (State is Copy) next to the State the call returned.  s256 is the       *)
(* State returned last, prev256 the receiver and blk256 the block of that  *)
(* call, op256 the call, n256 the blocks compressed since the State was    *)
(* created or reset.                                                       *)
(***************************************************************************)

\* a u32 from its four bytes, most significant first
from_be_bytes(b0, b1, b2, b3) == <<b0 * 256 + b1, b2 * 256 + b3>>

\* the padded empty message
BLOCK_EMPTY == [i \in 1..16 |-> IF i = 1 THEN <<\h8000, \h0000>> ELSE ZERO]

\* [0x00; 16]
BLOCK_ZEROES == [i \in 1..16 |-> ZERO]

\* the first 64 characters of "1234567890" repeated
digit_byte(i) == 48 + ((i + 1) % 10)

BLOCK_DIGITS ==
    [i \in 1..16 |-> from_be_bytes(digit_byte(4 * i - 4), digit_byte(4 * i - 3),
                                  digit_byte(4 * i - 2), digit_byte(4 * i - 1))]

Blocks256 == {BLOCK_EMPTY, BLOCK_ZEROES, BLOCK_DIGITS}

Init256 ==
    /\ \E made \in {"new", "default"} :
           /\ op256 = made
           /\ s256 = IF made = "new" THEN sha256_new ELSE sha256_default
    /\ prev256 = s256
    /\ blk256 = <<>>
    /\ n256 = 0
    /\ d = <<>>
    /\ sent = 0
    /\ u = new
    /\ f = <<>>
    /\ dg = <<>>
    /\ op = "new"
    /\ failure = "none"
    /\ capacity = new_alloc.capacity
    /\ allocated = new_alloc.allocated

\* state = state.update(block)
StateUpdate(block) ==
    /\ n256 < MaxBlocks256
    /\ s256' = sha256_update(s256, block)
    /\ prev256' = s256
    /\ blk256' = block
    /\ op256' = "update"
    /\ n256' = n256 + 1
    /\ UNCHANGED hash_vars

\* state = state.reset()
StateReset ==
    /\ s256' = sha256_reset(s256)
    /\ prev256' = s256
    /\ blk256' = <<>>
    /\ op256' = "reset"
    /\ n256' = 0
    /\ UNCHANGED hash_vars

Next256 ==
    \/ \E block \in Blocks256 : StateUpdate(block)
    \/ StateReset

Spec256 == Init256 /\ [][Next256]_vars

(***************************************************************************)
(* Properties                                                              *)
(***************************************************************************)

\* C1: chunking invariance.  However the bytes fed so far were split into
\* update calls, the Update equals new().update(fed) in state, buffer and
\* processed, and a finalize or digest taken of it is the one of the
\* one-shot computation, hash(fed).
C1_ChunkingInvariance ==
    failure = "none" =>
        /\ u = update(new, fed).value
        /\ op = "finalize" => f = <<finalize(update(new, fed).value, FALSE).value>>
        /\ op = "digest" => dg = <<hash(fed, FALSE).value>>

\* C1 witness: a piece completed a buffered partial block and went on past
\* the next block boundary, leaving a remainder.
C1_Witness ==
    /\ op = "update_complete"
    /\ failure = "none"
    /\ Len(u.state.blocks) = 2
    /\ Len(u.unprocessed) > 0

\* C2: the buffer of every reachable Update holds fewer bytes than a block.
C2_BufferBelowBlock == Len(u.unprocessed) < LENGTH_BYTES

\* C2 witness: an update appended to a non-empty buffer and left it one byte
\* short of a block.
C2_Witness ==
    /\ op = "update_buffer"
    /\ Len(u.unprocessed) = LENGTH_BYTES - 1

\* the value of a big-endian, respectively little-endian, byte string
RECURSIVE be_value(_)
be_value(bytes) ==
    IF Len(bytes) = 0 THEN 0
    ELSE be_value(SubSeq(bytes, 1, Len(bytes) - 1)) * 256 + bytes[Len(bytes)]

RECURSIVE le_value(_)
le_value(bytes) == IF Len(bytes) = 0 THEN 0 ELSE bytes[1] + 256 * le_value(Tail(bytes))

RECURSIVE concat(_)
concat(seqs) == IF Len(seqs) = 0 THEN <<>> ELSE Head(seqs) \o concat(Tail(seqs))

\* after a finalize: the blocks it passed to State.update, in order
finalize_blocks ==
    SubSeq(f[1].state.blocks, Len(u.state.blocks) + 1, Len(f[1].state.blocks))

finalized == op = "finalize" /\ failure = "none"

\* C3: finalize and digest leave the Update as it was: the step changes
\* nothing of it, and after any run of finalize / digest calls the Finalize
\* and the Digest held are still those of the Update as it stands, so
\* repeating the call returns an equal value and the updates that follow
\* start from the same Update.
C3_FinalizeLeavesUpdate ==
    /\ [](/\ finalized => f = <<finalize(u, FALSE).value>>
          /\ (op = "digest" /\ failure = "none") => dg = <<update_digest(u, FALSE).value>>)
    /\ [][op' \in {"finalize", "digest"} => u' = u /\ sent' = sent]_vars

\* C3 witness: finalize was called on an Update that holds two compressed
\* blocks and a buffered remainder, and a Digest was taken before.
C3_Witness ==
    /\ finalized
    /\ Len(dg) = 1
    /\ Len(u.state.blocks) = 2
    /\ Len(u.unprocessed) > 0
    /\ f[1].state # u.state

\* C4: the last 8 bytes of the last block finalize compresses are the
\* big-endian encoding of (unprocessed.len() + processed) * 8, the number of
\* bits passed to update since the Update was created or last reset.
C4_LengthFieldInBits ==
    finalized =>
        LET last == finalize_blocks[Len(finalize_blocks)]
            field == SubSeq(last, LENGTH_BYTES - U64_BYTES + 1, LENGTH_BYTES)
        IN  /\ Len(last) = LENGTH_BYTES
            /\ be_value(field) = (Len(u.unprocessed) + le_value(u.processed)) * 8
            /\ be_value(field) = sent * 8

\* C4 witness: finalize of a stream of more than one block with a remainder.
C4_Witness ==
    /\ finalized
    /\ sent > LENGTH_BYTES
    /\ Len(u.unprocessed) > 0
    /\ Len(finalize_blocks) = 1

\* C5: finalize compresses the n buffered bytes, one 0x80 byte, zero bytes
\* and the 8-byte length field, as one block when n <= 55 and as two blocks,
\* in order after the blocks already compressed, when 56 <= n <= 63; the
\* second block is then zero up to the length field.
C5_PaddingLayout ==
    finalized =>
        LET n == Len(u.unprocessed)
            pad == concat(finalize_blocks)
        IN  /\ SubSeq(f[1].state.blocks, 1, Len(u.state.blocks)) = u.state.blocks
            /\ Len(finalize_blocks) = IF n <= 55 THEN 1 ELSE 2
            /\ \A k \in 1..Len(finalize_blocks) : Len(finalize_blocks[k]) = LENGTH_BYTES
            /\ SubSeq(pad, 1, n) = u.unprocessed
            /\ pad[n + 1] = 128
            /\ \A i \in (n + 2)..(Len(pad) - 8) : pad[i] = 0
            /\ n >= 56 => \A i \in 1..(LENGTH_BYTES - 8) : finalize_blocks[2][i] = 0

\* C5 witness: finalize with 63 buffered bytes: the 0x80 byte ends the first
\* block and the second holds only the length field.
C5_Witness ==
    /\ finalized
    /\ Len(u.unprocessed) = 63
    /\ Len(finalize_blocks) = 2

\* C6 as claimed: with 0, 1 or 2 bytes of room before the length field
\* (56, 55 or 54 buffered bytes) finalize compresses two blocks.
C6_SpillAt54To56 ==
    (finalized /\ Len(u.unprocessed) \in {54, 55, 56}) => Len(finalize_blocks) = 2

\* C6 amended: with 56 buffered bytes finalize spills into a second block;
\* with 55 or 54 the 0x80 byte and the length field still fit and one block
\* is compressed; in each case the padded blocks carry the whole buffer,
\* the 0x80 byte right behind it and the length at the very end.
C6_SpillOnlyWithoutRoom ==
    (finalized /\ Len(u.unprocessed) \in {54, 55, 56}) =>
        LET n == Len(u.unprocessed)
            pad == concat(finalize_blocks)
        IN  /\ Len(finalize_blocks) = IF n = 56 THEN 2 ELSE 1
            /\ Len(pad) = Len(finalize_blocks) * LENGTH_BYTES
            /\ SubSeq(pad, 1, n + 1) = u.unprocessed \o <<128>>
            /\ be_value(SubSeq(pad, Len(pad) - 7, Len(pad))) = sent * 8

\* C6 witness: finalize with 55 buffered bytes of a stream longer than a
\* block: one padding block, filled to the last byte.
C6_Witness ==
    /\ finalized
    /\ Len(u.unprocessed) = 55
    /\ Len(u.state.blocks) = 1
    /\ Len(finalize_blocks) = 1

\* C7: reset returns the Update that new() returns (initial state, empty
\* buffer, processed = 0) whatever was absorbed before, and its digest is
\* the digest of a fresh instance.
C7_ResetIsNew ==
    (op = "reset" /\ failure = "none") =>
        /\ u.state = state_new
        /\ Len(u.unprocessed) = 0
        /\ le_value(u.processed) = 0
        /\ u = new
        /\ update_digest(u, FALSE) = hash(<<>>, FALSE)

\* C7 witness: reset after a stream of more than one block (the Finalize
\* taken before the reset shows three blocks, padding included).
C7_Witness ==
    /\ op = "reset"
    /\ Len(f) = 1
    /\ Len(f[1].state.blocks) = 3

\* C8: Finalize.reset returns the Update that new() returns, whatever the
\* Finalize holds, and leaves the Finalize as it was.
C8_FinalizeResetIsNew ==
    [][op' = "finalize_reset" => (u' = new /\ f' = f /\ Len(f) = 1)]_vars

\* C8 witness: Finalize.reset was called on the Finalize of a stream of
\* more than one block (three blocks, padding included).
C8_Witness ==
    /\ op = "finalize_reset"
    /\ Len(f) = 1
    /\ Len(f[1].state.blocks) = 3
    /\ u = new

\* C9: no assert! and no expect of update or finalize fires: every slice
\* made a Block has 64 bytes, the bytes missing from the buffer are there in
\* data, the drained block leaves no remainder, the buffer finalize reads is
\* shorter than a block.
C9_NoAssertFires == failure \notin {"assert", "expect"}

\* C9 witness: the buffer-completing branch ran with data of exactly the
\* missing length (missing = data.len()).
C9_Witness ==
    /\ op = "update_complete"
    /\ failure = "none"
    /\ Len(u.state.blocks) = 1
    /\ Len(u.unprocessed) = 0

\* C10 as claimed: a finalize or digest of an Update whose bit length
\* (unprocessed.len() + processed) * 8 passes 64 bits completes without
\* failing, and the length field it embeds is that bit length modulo 2^64.
C10_LengthOverflowWraps ==
    op \in {"finalize", "digest"} =>
        /\ failure = "none"
        /\ op = "finalize" =>
               SubSeq(finalize_blocks[Len(finalize_blocks)],
                      LENGTH_BYTES - U64_BYTES + 1, LENGTH_BYTES)
                 = to_be_bytes(wrapping_mul(
                       as_u64(wrapping_add(u.processed, Len(u.unprocessed))), 8))

\* C12: Update.reset allocates nothing.  Every reset step hands back an
\* Update on the buffer the receiver owned: no buffer is obtained from the
\* allocator and the capacity is the one before the call, while the buffer
\* is emptied, processed is 0 and the state is the initial one.
C12_ResetKeepsBuffer ==
    [][op' = "reset" =>
          /\ ~allocated'
          /\ capacity' = capacity
          /\ u'.unprocessed = <<>>
          /\ le_value(u'.processed) = 0
          /\ u'.state = state_new]_vars

\* a reset of an Update that had compressed a block and buffered bytes,
\* after its digest was taken
C12_Witness ==
    /\ op = "reset"
    /\ ~allocated
    /\ capacity = LENGTH_BYTES
    /\ Len(dg) = 1
    /\ Len(dg[1].of.blocks) = 2

C14_InitialState ==
    op256 \in {"new", "default", "reset"} =>
        sha256_digest(s256) =
            <<<<\h6A09, \hE667>>, <<\hBB67, \hAE85>>, <<\h3C6E, \hF372>>,
              <<\hA54F, \hF53A>>, <<\h510E, \h527F>>, <<\h9B05, \h688C>>,
              <<\h1F83, \hD9AB>>, <<\h5BE0, \hCD19>>>>

\* a reset of a State that differs from the initial one
C14_Witness ==
    /\ op256 = "reset"
    /\ prev256 # sha256_new
    /\ s256 = sha256_new

\* C16: known answer.  The initial state updated with the padded empty
\* message (word 0 = 80000000, the other words 0) is E3B0C442 98FC1C14
\* 9AFBF4C8 996FB924 27AE41E4 649B934C A495991B 7852B855.
C16_KnownAnswer ==
    (op256 = "update" /\ prev256 = sha256_new /\ blk256 = BLOCK_EMPTY) =>
        sha256_digest(s256) =
            <<<<\hE3B0, \hC442>>, <<\h98FC, \h1C14>>, <<\h9AFB, \hF4C8>>,
              <<\h996F, \hB924>>, <<\h27AE, \h41E4>>, <<\h649B, \h934C>>,
              <<\hA495, \h991B>>, <<\h7852, \hB855>>>>

\* new().update(data) of test_empty
C16_Witness ==
    /\ op256 = "update"
    /\ n256 = 1
    /\ prev256 = sha256_new
    /\ blk256 = BLOCK_EMPTY
    /\ s256.a = <<\hE3B0, \hC442>>

\* the rounds as a loop: round t consumes w[t] with K[t], t = from .. 63
RECURSIVE rounds_loop(_, _, _)
rounds_loop(state, w, t) ==
    IF t > 63 THEN state
    ELSE LET rotated == round(state, w[t + 1], K[t + 1])
         IN  IF DOMAIN rotated = DOMAIN state
             THEN rounds_loop(rotated, w, t + 1)
             ELSE state

\* C20: the message schedule.  The 48 unrolled assignments run for
\* t = 16, 17, .., 63 in that order, and for every block they leave
\* w[0..15] the block words and, for every t in 16..63,
\* w[t] = small_sigma1(w[t-2]) + w[t-7] + small_sigma0(w[t-15]) + w[t-16]
\* modulo 2^32, which is the loop form of the recurrence; the 64 unrolled
\* rounds are round(w[t], K[t]) for t = 0, 1, .., 63 in that order, and the
\* State returned is their result added word by word, modulo 2^32, to the
\* receiver.
C20_ScheduleIsRecurrence ==
    /\ \A i \in 1..48 : schedule_steps[i][1] = 15 + i
    /\ \A i \in 1..64 : round_calls[i] = <<i - 1, i - 1>>
    /\ op256 = "update" =>
          LET w == schedule(blk256)
          IN  /\ \A t \in 0..15 : w[t + 1] = blk256[t + 1]
              /\ \A t \in 16..63 :
                     w[t + 1] =
                         u32_wrapping_add(
                             u32_wrapping_add(
                                 u32_wrapping_add(small_sigma1(w[t - 2 + 1]),
                                                  w[t - 7 + 1]),
                                 small_sigma0(w[t - 15 + 1])),
                             w[t - 16 + 1])
              /\ s256 = feed_forward(rounds_loop(prev256, w, 0), prev256)

\* the second of two blocks in a row, the block of digits
C20_Witness ==
    /\ op256 = "update"
    /\ n256 = 2
    /\ blk256 = BLOCK_DIGITS
    /\ prev256 # sha256_new
    /\ s256 = sha256_update(prev256, BLOCK_DIGITS)

\* C17: blocks are compressed in stream order.  At any point the k-th block
\* compressed since new()/reset is bytes 64(k-1)+1 .. 64k of the data passed
\* so far (counting from 1), every whole block of that data has been
\* compressed, and the buffer is the tail that is left, shorter than a block;
\* so a block completed from the buffer and the head of the data goes before
\* the blocks cut from the rest of the data.
C17_BlocksInStreamOrder ==
    failure = "none" =>
        /\ Len(u.state.blocks) = sent \div LENGTH_BYTES
        /\ \A k \in 1..Len(u.state.blocks) :
               u.state.blocks[k] =
                   SubSeq(fed, LENGTH_BYTES * (k - 1) + 1, LENGTH_BYTES * k)
        /\ u.unprocessed =
               SubSeq(fed, LENGTH_BYTES * (sent \div LENGTH_BYTES) + 1, sent)

\* an update that completed the buffered bytes to a block with the head of
\* its data and buffered the tail of it: 129 bytes passed, two blocks
\* compressed in all, one byte buffered
C17_Witness ==
    /\ op = "update_complete"
    /\ sent = 129
    /\ Len(u.state.blocks) = 2
    /\ Len(u.unprocessed) = 1
    /\ d[1] # d[2]

\* C18: an update whose data still fits in the non-empty buffer compresses
\* nothing: state and processed are as before and the buffer is the old
\* buffer followed by the data; and an update with empty data leaves the
\* Update as it was, whichever branch it takes.
C18_BufferOnlyAppends ==
    [][/\ op' = "update_buffer" =>
              /\ u.unprocessed # <<>>
              /\ Len(u.unprocessed) + (sent' - sent) < LENGTH_BYTES
              /\ u'.state = u.state
              /\ u'.processed = u.processed
              /\ u'.unprocessed = u.unprocessed \o SubSeq(d, sent + 1, sent')
       /\ (op' \in {"update_direct", "update_buffer", "update_complete"}
              /\ sent' = sent) => u' = u]_vars

\* data appended to the bytes buffered behind one compressed block, 15
\* bytes buffered in all
C18_Witness ==
    /\ op = "update_buffer"
    /\ sent = 79
    /\ Len(u.state.blocks) = 1
    /\ Len(u.unprocessed) = 15

\* C19: byte accounting.  In every Update reached, processed is 64 times
\* the number of blocks compressed since new()/reset, counted modulo 2^64
\* from where a very long stream had brought it, hence a multiple of 64 that
\* leaves the buffered bytes out; processed plus the buffer length is the
\* number of bytes passed to update; and the sum unprocessed.len() +
\* processed that finalize computes does not pass the counter's maximum.
C19_ByteAccounting ==
    /\ u.processed[1] % LENGTH_BYTES = 0
    /\ LENGTH_BYTES * Len(u.state.blocks) + Len(u.unprocessed) = sent
    /\ u.state.iv = "H" =>
          /\ le_value(u.processed) = LENGTH_BYTES * Len(u.state.blocks)
          /\ le_value(u.processed) + Len(u.unprocessed) = sent
    /\ u.state.iv = "long" =>
          \E top \in {31, 255} :
              u.processed = wrapping_add(long_stream(top).processed,
                                         LENGTH_BYTES * Len(u.state.blocks))
    /\ ~add_overflows(u.processed, Len(u.unprocessed))

\* the counter one block short of its maximum plus a buffer of 63 bytes: the
\* sum is 2^64 - 1
C19_Witness ==
    /\ u.state.iv = "long"
    /\ u.state.blocks = <<>>
    /\ u.processed = long_stream(255).processed
    /\ Len(u.unprocessed) = 63
    /\ sent = 63

\* the first n bytes of the data of a kind
input(kind, n) == [i \in 1..n |-> DataByte(kind, i)]

\* the blocks passed to State.update when data is hashed in one piece
blocks_of(data) == finalize(update(new, data).value, FALSE).value.state.blocks

\* C21: padding is injective.  After finalize, the blocks compressed since
\* new()/reset give the input back: the length field at their end is 8 times
\* the number of bytes passed, and that many bytes from their start are the
\* bytes passed; so they differ from the blocks of every other input, here
\* every input of either kind of data and any length up to MaxData.  60 zero
\* bytes give two padding blocks with the length 480, 64 zero bytes one data
\* block and one padding block with the length 512.
C21_PaddingInjective ==
    finalized =>
        LET blocks == f[1].state.blocks
            all == concat(blocks)
            field == SubSeq(all, Len(all) - U64_BYTES + 1, Len(all))
        IN  /\ be_value(field) = 8 * sent
            /\ SubSeq(all, 1, be_value(field) \div 8) = fed
            /\ \A kind \in DataKinds : \A n \in 0..MaxData :
                   input(kind, n) # fed => blocks_of(input(kind, n)) # blocks
            /\ fed = input("zeroes", 60) =>
                   /\ Len(blocks) = 2
                   /\ u.state.blocks = <<>>
                   /\ be_value(field) = 480
                   /\ blocks # blocks_of(input("zeroes", 64))
            /\ fed = input("zeroes", 64) =>
                   /\ Len(blocks) = 2
                   /\ u.state.blocks = <<input("zeroes", 64)>>
                   /\ be_value(field) = 512

\* finalize after 64 zero bytes: the data block, then the padding block
C21_Witness ==
    /\ finalized
    /\ fed = input("zeroes", 64)
    /\ Len(f[1].state.blocks) = 2
    /\ f[1].state.blocks[2][1] = 128

====
